---- MODULE Spec2Model ----
(***************************************************************************)
(* VolunteerConnect Hub: the dual-mode data-access layer                   *)
(* (assets/js/database.js), the auth bridge (assets/js/auth.js, which      *)
(* holds two variants of the module) and the shared session object of     *)
(* assets/js/app.js.                                                       *)
(*                                                                         *)
(* Conventions.  A JavaScript string is a sequence of text chunks, with   *)
(* every blank and every '@' a chunk of its own, so that trim(),          *)
(* includes('@') and split('@') are computed.  A JavaScript object is a   *)
(* function from field names to values; spread ({...a, ...b}) is Merge.   *)
(* null / undefined is NULL.  A value stored in localStorage is modelled  *)
(* by the value JSON.parse gives back for it.                              *)
(***************************************************************************)
EXTENDS Integers, Sequences, FiniteSets, TLC

\* ---------------------------------------------------------------- bounds
MaxClock == 1      \* Date.now() takes the values 0..MaxClock
MaxRows == 2       \* rows held by the local tables together
TicksPerDay == 2   \* clock ticks in one calendar day
MaxItems == 2      \* entries held by AppState.hours and AppState.schedule together
MaxPending == 2    \* calls suspended at an await at one time
MaxTimers == 2     \* setTimeout callbacks waiting at one time

\* --------------------------------------------------------------- values
NULL == [null |-> TRUE]
EmptyObj == [k \in {} |-> NULL]

Merge(a, b) ==
    [k \in (DOMAIN a) \cup (DOMAIN b) |-> IF k \in DOMAIN b THEN b[k] ELSE a[k]]

Has(o, k) == k \in DOMAIN o

Space == " "
At == "@"

RECURSIVE TrimStart(_)
TrimStart(s) == IF Len(s) > 0 /\ Head(s) = Space THEN TrimStart(Tail(s)) ELSE s

RECURSIVE TrimEnd(_)
TrimEnd(s) ==
    IF Len(s) > 0 /\ s[Len(s)] = Space THEN TrimEnd(SubSeq(s, 1, Len(s) - 1)) ELSE s

trim(s) == TrimEnd(TrimStart(s))

includes(s, ch) == \E i \in 1..Len(s) : s[i] = ch

StartsWith(s, p) == Len(s) >= Len(p) /\ SubSeq(s, 1, Len(p)) = p

Digits == <<"0", "1", "2", "3", "4", "5", "6", "7", "8", "9">>

\* Number.prototype.toString() / string concatenation of a number
RECURSIVE NumToStr(_)
NumToStr(n) ==
    IF n < 10 THEN <<Digits[n + 1]>>
    ELSE NumToStr(n \div 10) \o <<Digits[(n % 10) + 1]>>

\* Date.prototype.toISOString(): fixed-width text whose order is the order
\* of the instants; kept as a tagged instant
IsoString(t) == [iso |-> t]

DemoPrefix == <<"demo-">>
DefaultDemoName == <<"Demo", Space, "User">>
DefaultDemoEmail == <<"demo", At, "volunteerconnect.app">>

\* --------------------------------------------------------------- inputs
\* what the user types into the demo login form
DemoNames == { <<>>, <<Space>>, <<"Jane">>, <<Space, "Kim">> }
DemoEmails == { <<>>, <<"jane">>, <<"jane", At, "x.com">> }

\* payloads handed to addHoursEntry / addEvent / saveLetter / updateProfile
HoursInputs ==
    { [organization |-> <<"Food Bank">>, date |-> 2, hours |-> 4],
      [date |-> 1, hours |-> 2, id |-> <<"x">>, user_id |-> <<"u-other">>] }
EventInputs == { [title |-> <<"Shift">>, date |-> 1, user_id |-> <<"u-other">>] }
LetterInputs == { [letter_type |-> <<"thankyou">>, content |-> <<"Dear">>] }
ProfileInputs ==
    { [display_name |-> <<"Jane">>],
      [phone |-> <<"555">>, updated_at |-> IsoString(9)],
      [id |-> <<"u-other">>, profile_complete |-> TRUE] }

HoursFilters == { EmptyObj, [startDate |-> 2], [endDate |-> 1] }

\* ---------------------------------------------------------------- state
VARIABLES
    configured,      \* SUPABASE_URL and SUPABASE_ANON_KEY are not the placeholders
    firebaseReady,   \* firebaseConfig.apiKey is not the placeholder
    authVariant,     \* which variant of auth.js the page runs (1 or 2)
    appLoaded,       \* app.js ran: window.VolunteerConnect.AppState exists
    supabaseClient,  \* database.js:25
    dbInitialized,   \* database.js:26
    session,         \* user of the hosted session (NULL when signed out)
    auth,            \* auth.js:22, NULL or [currentUser |-> ...]
    demoModal,       \* the demo login dialog is in the document
    lsUser,          \* localStorage volunteerConnectUser
    lsProfile,       \* localStorage volunteerProfile
    lsHours,         \* localStorage volunteerHoursLog
    lsEvents,        \* localStorage volunteerEvents
    lsLetters,       \* localStorage volunteerLetters
    appUser,         \* AppState.user
    appHours,        \* AppState.hours
    appSchedule,     \* AppState.schedule
    lsState,         \* localStorage volunteerConnectState
    appVolunteers,   \* AppState.volunteers
    pending,         \* calls of the data layer suspended at an await
    timers,          \* setTimeout callbacks that have not run yet
    shown,           \* tags of the notifications shown so far
    permission,      \* Notification.permission
    clock,           \* Date.now()
    ran,             \* DOMContentLoaded handlers that have run on this page
    last             \* the most recent call: name, argument, outcome, requests, signals

vars == <<configured, firebaseReady, authVariant, appLoaded, supabaseClient,
          dbInitialized, session, auth, demoModal, lsUser, lsProfile, lsHours,
          lsEvents, lsLetters, appUser, appHours, appSchedule, lsState,
          appVolunteers, pending, timers, shown, permission, clock, ran, last>>

configVars == <<configured, firebaseReady, authVariant, appLoaded>>
dbVars == <<supabaseClient, dbInitialized>>
tableVars == <<lsHours, lsEvents, lsLetters>>
appVars == <<appHours, appSchedule, lsState>>
asyncVars == <<pending, timers, shown, permission>>

\* the record of a call: its name and argument, how it ended (out, val), the
\* requests it sent to the hosted services, the users it handed to
\* handleAuthStateChange with the events that dispatched, and the message shown
NoCall ==
    [op |-> "none", arg |-> NULL, out |-> "return", val |-> NULL,
     sent |-> <<>>, notified |-> <<>>, signals |-> <<>>, alert |-> ""]

Call(op, arg, out, val, sent, n, alert) ==
    [op |-> op, arg |-> arg, out |-> out, val |-> val,
     sent |-> sent, notified |-> n.users, signals |-> n.signals, alert |-> alert]

Quiet == [users |-> <<>>, signals |-> <<>>]

InitCommon ==
    /\ authVariant \in {1, 2}
    /\ appLoaded \in BOOLEAN
    /\ supabaseClient = NULL
    /\ dbInitialized = FALSE
    /\ session = NULL
    /\ auth = NULL
    /\ demoModal = FALSE
    /\ lsUser = NULL
    /\ lsProfile = NULL
    /\ lsHours = <<>>
    /\ lsEvents = <<>>
    /\ lsLetters = <<>>
    /\ appUser = NULL
    /\ appHours = <<>>
    /\ appSchedule = <<>>
    /\ lsState = NULL
    /\ appVolunteers = <<>>
    /\ pending = <<>>
    /\ timers = <<>>
    /\ shown = <<>>
    /\ permission = "default"
    /\ clock = 0
    /\ ran = {}
    /\ last = NoCall

\* ------------------------------------------------------------ time
Tick ==
    /\ clock < MaxClock
    /\ clock' = clock + 1
    /\ UNCHANGED <<configVars, asyncVars, appVolunteers, appVars, dbVars, session,
                   auth, demoModal, lsUser, lsProfile, tableVars, appUser, ran, last>>

\* ------------------------------------------------------------ mode selector
isDatabaseAvailable == dbInitialized /\ supabaseClient # NULL

\* ------------------------------------------------------------ auth bridge
FirebaseUsers ==
    { [uid |-> <<"fb1">>, displayName |-> <<"Ann">>,
       email |-> <<"ann", At, "g.com">>, photoURL |-> [url |-> <<"pic">>]] }

SessionUsers ==
    { [id |-> <<"u1">>, email |-> <<"ann", At, "g.com">>,
       user_metadata |-> [full_name |-> <<"Ann">>, avatar_url |-> [url |-> <<"pic">>]]],
      [id |-> <<"u2">>, email |-> <<"bob", At, "g.com">>,
       user_metadata |-> EmptyObj] }

\* String.prototype.split(ch)[0]
RECURSIVE SplitFirst(_, _)
SplitFirst(s, ch) ==
    IF Len(s) = 0 \/ Head(s) = ch THEN <<>>
    ELSE <<Head(s)>> \o SplitFirst(Tail(s), ch)

\* handleAuthStateChange(user): the new AppState.user and the events dispatched.
\* Both variants guard the AppState write by the presence of window.VolunteerConnect.
HandleAuthStateChangeEmit_BothSignals(user) ==
    IF user # NULL THEN <<"userSignedIn">> ELSE <<"userSignedIn", "userSignedOut">>

HandleAuthStateChangeEmit(user) ==
    IF user # NULL THEN <<"userSignedIn">> ELSE <<"userSignedOut">>

Notify(user) == [users |-> <<user>>, signals |-> HandleAuthStateChangeEmit(user)]

HandleAuthStateChangeUser(user) ==
    IF ~appLoaded THEN appUser
    ELSE IF user # NULL
         THEN [uid |-> user.uid, name |-> user.displayName,
               email |-> user.email, photoURL |-> user.photoURL]
         ELSE NULL

\* handleSupabaseAuthChange(event, session): the normalized user
NormalizeSessionUser(su) ==
    IF su = NULL THEN NULL
    ELSE [uid |-> su.id,
          email |-> su.email,
          displayName |->
              IF Has(su.user_metadata, "full_name") /\ Len(su.user_metadata.full_name) > 0
              THEN su.user_metadata.full_name
              ELSE SplitFirst(su.email, At),
          photoURL |->
              IF Has(su.user_metadata, "avatar_url")
              THEN su.user_metadata.avatar_url ELSE NULL]

\* getCurrentUser() of auth.js
getCurrentUser == IF auth # NULL THEN auth.currentUser ELSE lsUser

\* initializeFirebase(), the DOMContentLoaded handler of auth.js.
\* fb: the firebase library is "absent", its initialisation "throws", or is "ok".
InitializeFirebase(fb) ==
    /\ "auth" \notin ran
    /\ ran' = ran \cup {"auth"}
    /\ IF firebaseReady /\ fb = "ok"
       THEN /\ auth' = [currentUser |-> NULL]
            /\ last' = Call("initializeFirebase", NULL, "return", NULL, <<>>, Quiet, "")
            /\ UNCHANGED <<appUser, lsUser>>
       ELSE IF firebaseReady /\ fb = "throws" /\ authVariant = 2
       THEN \* variant 2 has no try/catch: the handler ends with the exception
            /\ last' = Call("initializeFirebase", NULL, "throw", NULL, <<>>, Quiet, "")
            /\ UNCHANGED <<auth, appUser, lsUser>>
       ELSE IF authVariant = 1
       THEN \* initializeDemoMode()
            /\ appUser' = HandleAuthStateChangeUser(lsUser)
            /\ last' = Call("initializeFirebase", NULL, "return", NULL, <<>>,
                            Notify(lsUser), "")
            /\ UNCHANGED <<auth, lsUser>>
       ELSE \* variant 2 notifies only when a user is stored
            /\ appUser' = IF lsUser # NULL THEN HandleAuthStateChangeUser(lsUser) ELSE appUser
            /\ last' = Call("initializeFirebase", NULL, "return", NULL, <<>>,
                            IF lsUser # NULL THEN Notify(lsUser) ELSE Quiet,
                            "")
            /\ UNCHANGED <<auth, lsUser>>
    /\ UNCHANGED <<configVars, asyncVars, appVolunteers, appVars, dbVars, session, demoModal, lsProfile, tableVars, clock>>

\* the listener registered with auth.onAuthStateChanged
FirebaseAuthStateChanged(u) ==
    /\ auth # NULL
    /\ auth' = [currentUser |-> u]
    /\ appUser' = HandleAuthStateChangeUser(u)
    /\ last' = Call("onAuthStateChanged", u, "return", NULL, <<>>,
                    Notify(u), "")
    /\ UNCHANGED <<configVars, asyncVars, appVolunteers, appVars, dbVars, session, demoModal, lsUser, lsProfile,
                   tableVars, clock, ran>>

\* signInWithGoogle() of auth.js in demo mode: showDemoLogin()
SignInWithGoogleDemo ==
    /\ auth = NULL
    /\ demoModal' = TRUE
    /\ last' = Call("signInWithGoogle", NULL, "return", NULL, <<>>, Quiet, "")
    /\ UNCHANGED <<configVars, asyncVars, appVolunteers, appVars, dbVars, session, auth, lsUser, lsProfile, tableVars,
                   appUser, clock, ran>>

CloseDemoLogin ==
    /\ demoModal
    /\ demoModal' = FALSE
    /\ last' = Call("closeDemoLogin", NULL, "return", NULL, <<>>, Quiet, "")
    /\ UNCHANGED <<configVars, asyncVars, appVolunteers, appVars, dbVars, session, auth, lsUser, lsProfile, tableVars,
                   appUser, clock, ran>>

DemoUser_NoPrefix(name, email) ==
    [uid |-> NumToStr(clock),
     displayName |-> name,
     email |-> email,
     photoURL |-> [avatarFor |-> name]]

DemoUser(name, email) ==
    [uid |-> DemoPrefix \o NumToStr(clock),
     displayName |-> name,
     email |-> email,
     photoURL |-> [avatarFor |-> name]]

\* the message completeDemoLogin() shows instead of signing in ("" when it signs in)
DemoLoginError(name, email) ==
    IF authVariant = 2 THEN ""
    ELSE IF Len(name) = 0 THEN "Please enter your name"
    ELSE IF Len(email) = 0 THEN "Please enter your email"
    ELSE IF ~includes(email, At) THEN "Please enter a valid email"
    ELSE ""

DemoLoginName(nameValue) ==
    IF authVariant = 1 THEN trim(nameValue)
    ELSE IF Len(nameValue) = 0 THEN DefaultDemoName ELSE nameValue

DemoLoginEmail(emailValue) ==
    IF authVariant = 1 THEN trim(emailValue)
    ELSE IF Len(emailValue) = 0 THEN DefaultDemoEmail ELSE emailValue

\* completeDemoLogin(): the Sign In button of the demo dialog, with the
\* values typed into its two fields
CompleteDemoLogin(nameValue, emailValue) ==
    /\ demoModal
    /\ LET name == DemoLoginName(nameValue)
           email == DemoLoginEmail(emailValue)
           err == DemoLoginError(name, email)
           arg == [name |-> nameValue, email |-> emailValue]
       IN IF err # ""
          THEN /\ last' = Call("completeDemoLogin", arg, "return", NULL, <<>>, Quiet, err)
               /\ UNCHANGED <<lsUser, appUser, demoModal>>
          ELSE /\ lsUser' = DemoUser(name, email)
               /\ appUser' = HandleAuthStateChangeUser(DemoUser(name, email))
               /\ demoModal' = FALSE
               /\ last' = Call("completeDemoLogin", arg, "return", NULL, <<>>,
                               Notify(DemoUser(name, email)), "")
    /\ UNCHANGED <<configVars, asyncVars, appVolunteers, appVars, dbVars, session, auth, lsProfile, tableVars, clock, ran>>

\* signOut() of auth.js. ok: auth.signOut() of the hosted service succeeds.
SignOut(ok) ==
    /\ IF auth # NULL
       THEN IF ok
            THEN \* the service signs out and its listener is told
                 /\ auth' = [currentUser |-> NULL]
                 /\ appUser' = HandleAuthStateChangeUser(NULL)
                 /\ last' = Call("signOut", NULL, "return", NULL, <<>>,
                                 Notify(NULL), "")
                 /\ UNCHANGED lsUser
            ELSE /\ last' = Call("signOut", NULL, "return", NULL, <<>>, Quiet, "")
                 /\ UNCHANGED <<auth, appUser, lsUser>>
       ELSE /\ ok
            /\ lsUser' = NULL
            /\ appUser' = HandleAuthStateChangeUser(NULL)
            /\ last' = Call("signOut", NULL, "return", NULL, <<>>,
                            Notify(NULL), "")
            /\ UNCHANGED auth
    /\ UNCHANGED <<configVars, asyncVars, appVolunteers, appVars, dbVars, session, demoModal, lsProfile, tableVars, clock, ran>>

\* ------------------------------------------------------------ database client
authVars == <<session, auth, demoModal, lsUser, appUser, ran>>

\* a request to the hosted backend; where: the predicates of the query, by column
\* ("date>=" and "date<=" are the range predicates gte and lte)
Req(kind, table, payload, where) ==
    [kind |-> kind, table |-> table, payload |-> payload, where |-> where]

GetUserReq == Req("getUser", "auth", EmptyObj, EmptyObj)

NotAuthenticated == [error |-> "Not authenticated"]
BackendError == [error |-> "backend"]

\* initDatabase(). env: what the page offers when the call runs: the client
\* library is missing ("nolib"), createClient throws ("createThrows"),
\* registering the auth listener throws ("listenThrows"), or all works ("ok").
InitEnvs == {"nolib", "createThrows", "listenThrows", "ok"}

InitDatabaseFlag_StaysSet(env) == (configured /\ env = "ok") \/ dbInitialized

InitDatabaseFlag(env) == configured /\ env = "ok"

InitDatabase(env) ==
    /\ dbInitialized' = InitDatabaseFlag(env)
    /\ supabaseClient' =
           IF configured /\ env = "ok" THEN [listening |-> TRUE]
           ELSE IF configured /\ env = "listenThrows" THEN [listening |-> FALSE]
           ELSE supabaseClient
    /\ last' = Call("initDatabase", [env |-> env], "return",
                    [ok |-> configured /\ env = "ok"], <<>>, Quiet, "")
    /\ UNCHANGED <<configVars, asyncVars, appVolunteers, appVars, authVars, lsProfile, tableVars, clock>>

\* dbGetCurrentUser(): the user the data layer works for
dbGetCurrentUser == IF ~isDatabaseAvailable THEN lsUser ELSE session

\* the auth listener registered by initDatabase, told a new hosted session
SupabaseAuthEvent(su) ==
    /\ supabaseClient # NULL
    /\ session' = su
    /\ IF supabaseClient.listening
       THEN /\ appUser' = HandleAuthStateChangeUser(NormalizeSessionUser(su))
            /\ last' = Call("onAuthStateChange", su, "return", NULL, <<>>,
                            Notify(NormalizeSessionUser(su)), "")
       ELSE /\ last' = Call("onAuthStateChange", su, "return", NULL, <<>>, Quiet, "")
            /\ UNCHANGED appUser
    /\ UNCHANGED <<configVars, asyncVars, appVolunteers, appVars, dbVars, auth, demoModal, lsUser, lsProfile, tableVars,
                   clock, ran>>

\* dbSignOut(). ok: the hosted auth service accepts the sign-out.
DbSignOut(ok) ==
    /\ IF ~isDatabaseAvailable
       THEN /\ ok
            /\ lsUser' = NULL
            /\ lsProfile' = NULL
            /\ appUser' = HandleAuthStateChangeUser(NULL)
            /\ last' = Call("dbSignOut", NULL, "return", NULL, <<>>,
                            Notify(NULL), "")
            /\ UNCHANGED session
       ELSE /\ UNCHANGED <<lsUser, lsProfile>>
            /\ IF ok
               THEN /\ session' = NULL
                    /\ appUser' = IF supabaseClient.listening
                                  THEN HandleAuthStateChangeUser(NULL) ELSE appUser
                    /\ last' = Call("dbSignOut", NULL, "return", NULL,
                                    <<Req("signOut", "auth", EmptyObj, EmptyObj)>>,
                                    IF supabaseClient.listening
                                    THEN Notify(NULL) ELSE Quiet, "")
               ELSE /\ last' = Call("dbSignOut", NULL, "return", NULL,
                                    <<Req("signOut", "auth", EmptyObj, EmptyObj)>>,
                                    Quiet, "")
                    /\ UNCHANGED <<session, appUser>>
    /\ UNCHANGED <<configVars, asyncVars, appVolunteers, appVars, dbVars, auth, demoModal, tableVars, clock, ran>>

\* the persisted keys the local branch of dbSignOut() leaves behind
KeysAfterDbSignOut ==
    [user |-> NULL, profile |-> NULL, hours |-> lsHours, events |-> lsEvents,
     letters |-> lsLetters]

\* ------------------------------------------------------------ provider sign-in
\* how the popup of the hosted auth service ends, and the redirect after it
PopupOutcomes == {"ok", "blocked", "closed"}
RedirectOutcomes == {"ok", "throws"}

\* error.message of the rejected popup
PopupMessage(popup) ==
    IF popup = "blocked" THEN "auth/popup-blocked" ELSE "auth/popup-closed-by-user"

\* the requests signInWithGoogle() sends when the popup fails: variant 1 goes
\* on to signInWithRedirect when the popup was blocked
SignInRequests(popup) ==
    IF popup = "blocked" /\ authVariant = 1
    THEN <<Req("signInWithPopup", "auth", EmptyObj, EmptyObj),
           Req("signInWithRedirect", "auth", EmptyObj, EmptyObj)>>
    ELSE <<Req("signInWithPopup", "auth", EmptyObj, EmptyObj)>>

\* the message showAuthError displays when the popup fails
SignInAlert(popup, redirect) ==
    IF popup = "blocked" /\ authVariant = 1
    THEN IF redirect = "throws" THEN "Could not sign in. Please try again." ELSE ""
    ELSE PopupMessage(popup)

\* signInWithGoogle() of auth.js with the hosted auth service present
SignInWithGoogle(popup, redirect, u) ==
    /\ auth # NULL
    /\ LET arg == [popup |-> popup, redirect |-> redirect]
       IN IF popup = "ok"
          THEN /\ auth' = [currentUser |-> u]
               /\ appUser' = HandleAuthStateChangeUser(u)
               /\ last' = Call("signInWithGoogle", arg, "return", u,
                               <<Req("signInWithPopup", "auth", EmptyObj, EmptyObj)>>,
                               Notify(u), "")
          ELSE /\ last' = Call("signInWithGoogle", arg, "return", NULL,
                               SignInRequests(popup), Quiet,
                               SignInAlert(popup, redirect))
               /\ UNCHANGED <<auth, appUser>>
    /\ UNCHANGED <<configVars, asyncVars, appVolunteers, appVars, dbVars, session,
                   demoModal, lsUser, lsProfile, tableVars, clock, ran>>

\* dbSignInWithGoogle(). resp: the answer of signInWithOAuth
DbSignInWithGoogle(resp) ==
    /\ IF ~isDatabaseAvailable
       THEN /\ resp = "ok"
            /\ demoModal' = TRUE
            /\ last' = Call("dbSignInWithGoogle", [resp |-> resp], "return", NULL,
                            <<>>, Quiet, "")
       ELSE /\ last' = Call("dbSignInWithGoogle", [resp |-> resp], "return", NULL,
                            <<Req("signInWithOAuth", "auth", EmptyObj, EmptyObj)>>,
                            Quiet,
                            IF resp = "error" THEN "error.message" ELSE "")
            /\ UNCHANGED demoModal
    /\ UNCHANGED <<configVars, asyncVars, appVolunteers, appVars, dbVars, session,
                   auth, lsUser, lsProfile, tableVars, appUser, clock, ran>>

\* ------------------------------------------------------------ profile
\* writtenBy records who was signed in when a local object was written; the
\* code stores no owner with it and no operation reads the field
Stamp(row) == Merge(row, [writtenBy |-> lsUser])

Unstamp(row) == [k \in (DOMAIN row) \ {"writtenBy"} |-> row[k]]

\* the row the backend holds for a user before any update (schema: id, email)
BackendProfile(user) == [id |-> user.id, email |-> user.email]

\* dbGetProfile(). resp: the backend answers "ok" or "error".
DbGetProfile(resp) ==
    /\ IF ~isDatabaseAvailable
       THEN /\ resp = "ok"
            /\ last' = Call("getProfile", NULL, "return", lsProfile, <<>>, Quiet, "")
       ELSE IF session = NULL
       THEN /\ resp = "ok"
            /\ last' = Call("getProfile", NULL, "return", NULL, <<GetUserReq>>, Quiet, "")
       ELSE LET q == Req("select", "profiles", EmptyObj, [id |-> session.id])
            IN last' = Call("getProfile", NULL, "return",
                            IF resp = "ok" THEN BackendProfile(session) ELSE NULL,
                            <<GetUserReq, q>>, Quiet, "")
    /\ UNCHANGED <<configVars, asyncVars, appVolunteers, appVars, dbVars, authVars, lsProfile, tableVars, clock>>

\* the object dbUpdateProfile() stores locally
UpdatedProfile(existing, profileData) ==
    Merge(Merge(existing, profileData), [updated_at |-> IsoString(clock)])

\* dbUpdateProfile(profileData)
DbUpdateProfile(profileData, resp) ==
    /\ IF ~isDatabaseAvailable
       THEN /\ resp = "ok"
            /\ LET existing == IF lsProfile = NULL THEN EmptyObj ELSE Unstamp(lsProfile)
                   updated == UpdatedProfile(existing, profileData)
               IN /\ lsProfile' = Stamp(updated)
                  /\ last' = Call("updateProfile", profileData, "return", updated,
                                  <<>>, Quiet, "")
       ELSE /\ UNCHANGED lsProfile
            /\ IF session = NULL
               THEN /\ resp = "ok"
                    /\ last' = Call("updateProfile", profileData, "throw",
                                    NotAuthenticated, <<GetUserReq>>, Quiet, "")
               ELSE LET payload == Merge(profileData, [updated_at |-> IsoString(clock)])
                        q == Req("update", "profiles", payload, [id |-> session.id])
                    IN last' = IF resp = "ok"
                               THEN Call("updateProfile", profileData, "return",
                                         Merge(BackendProfile(session), payload),
                                         <<GetUserReq, q>>, Quiet, "")
                               ELSE Call("updateProfile", profileData, "throw",
                                         BackendError, <<GetUserReq, q>>, Quiet, "")
    /\ UNCHANGED <<configVars, asyncVars, appVolunteers, appVars, dbVars, authVars, tableVars, clock>>

\* ------------------------------------------------------------ tables
\* JavaScript truthiness of an optional number / an optional flag
TruthyNum(o, k) == Has(o, k) /\ o[k] # 0
TruthyFlag(o, k) == Has(o, k) /\ o[k]

LocalRows == Len(lsHours) + Len(lsEvents) + Len(lsLetters)

\* ids a caller may hand to the delete operations
DeleteIds == { NumToStr(t) : t \in 0..MaxClock }

\* new Date().toISOString().split('T')[0], days counted from the epoch
Today == clock \div TicksPerDay

\* { ...entry, id: Date.now().toString(), created_at: new Date().toISOString() }
NewLocalRow(entry) ==
    Merge(entry, [id |-> NumToStr(clock), created_at |-> IsoString(clock)])

\* a sequence without its i-th element
RemoveAt(rows, i) == SubSeq(rows, 1, i - 1) \o SubSeq(rows, i + 1, Len(rows))

\* rows.filter(r => r.id !== id)
WithoutId(rows, id) == SelectSeq(rows, LAMBDA r : r.id # id)

\* the rows a select returns: those of the table that satisfy every predicate
Matches(r, where) ==
    /\ \A k \in (DOMAIN where) \ {"date>=", "date<="} : Has(r, k) /\ r[k] = where[k]
    /\ Has(where, "date>=") => r.date >= where["date>="]
    /\ Has(where, "date<=") => r.date <= where["date<="]

BackendSelect(rows, where) == SelectSeq(rows, LAMBDA r : Matches(r, where))

\* what the hosted tables hold when a select arrives
BackendHours ==
    << [id |-> <<"h2">>, user_id |-> <<"u1">>, date |-> 2, hours |-> 1],
       [id |-> <<"h1">>, user_id |-> <<"u2">>, date |-> 1, hours |-> 3] >>
BackendEvents ==
    << [id |-> <<"e1">>, user_id |-> <<"u1">>, date |-> 0, title |-> <<"Old">>],
       [id |-> <<"e2">>, user_id |-> <<"u2">>, date |-> 1, title |-> <<"New">>] >>
BackendLetters ==
    << [id |-> <<"l1">>, user_id |-> <<"u1">>, letter_type |-> <<"thankyou">>] >>

\* the row an insert returns: the payload with the server's default id
BackendInserted(payload) == Merge([id |-> <<"uuid">>], payload)

\* the remote half of a list operation
RemoteList(op, arg, table, rows, where, resp) ==
    IF session = NULL
    THEN Call(op, arg, "return", <<>>, <<GetUserReq>>, Quiet, "")
    ELSE LET q == Req("select", table, EmptyObj, Merge([user_id |-> session.id], where))
         IN IF resp = "ok"
            THEN Call(op, arg, "return", BackendSelect(rows, q.where),
                      <<GetUserReq, q>>, Quiet, "")
            ELSE Call(op, arg, "throw", BackendError, <<GetUserReq, q>>, Quiet, "")

\* the owner an insert stamps on the row
InsertPayload(entry, user) == Merge(entry, [user_id |-> user.id])

\* the remote half of an insert
RemoteInsert(op, entry, table, resp) ==
    IF session = NULL
    THEN Call(op, entry, "throw", NotAuthenticated, <<GetUserReq>>, Quiet, "")
    ELSE LET q == Req("insert", table, InsertPayload(entry, session), EmptyObj)
         IN IF resp = "ok"
            THEN Call(op, entry, "return", BackendInserted(q.payload),
                      <<GetUserReq, q>>, Quiet, "")
            ELSE Call(op, entry, "throw", BackendError, <<GetUserReq, q>>, Quiet, "")

\* the predicates of a remote delete
DeleteWhere(id, user) == [id |-> id, user_id |-> user.id]

\* the remote half of a delete
RemoteDelete_NoAuthCheck(op, id, table, resp) ==
    LET q == Req("delete", table, EmptyObj, [id |-> id])
    IN IF resp = "ok"
       THEN Call(op, id, "return", NULL, <<GetUserReq, q>>, Quiet, "")
       ELSE Call(op, id, "throw", BackendError, <<GetUserReq, q>>, Quiet, "")

RemoteDelete(op, id, table, resp) ==
    IF session = NULL
    THEN Call(op, id, "throw", NotAuthenticated, <<GetUserReq>>, Quiet, "")
    ELSE LET q == Req("delete", table, EmptyObj, DeleteWhere(id, session))
         IN IF resp = "ok"
            THEN Call(op, id, "return", NULL, <<GetUserReq, q>>, Quiet, "")
            ELSE Call(op, id, "throw", BackendError, <<GetUserReq, q>>, Quiet, "")

\* resp: what the store behind the operation answers. The backend answers "ok"
\* or "error" and is not asked without a user; in local mode
\* localStorage.setItem stores the value ("ok") or throws ("quota").
Decided(resp) ==
    IF ~isDatabaseAvailable THEN resp \in {"ok", "quota"}
    ELSE IF session = NULL THEN resp = "ok"
    ELSE resp \in {"ok", "error"}

\* the exception of a localStorage.setItem that cannot store the value
StorageError == [error |-> "QuotaExceededError"]

\* what a key holds after setItem threw: the value it held before
FailedWrite_Truncated(before, after) == <<>>

FailedWrite(before, after) == before

\* the value of a key after localStorage.setItem(key, JSON.stringify(after))
SetItem(before, after, resp) ==
    IF resp = "quota" THEN FailedWrite(before, after) ELSE after

\* how a local write ends for its caller
LocalWrite(op, arg, val, resp) ==
    IF resp = "quota" THEN Call(op, arg, "throw", StorageError, <<>>, Quiet, "")
    ELSE Call(op, arg, "return", val, <<>>, Quiet, "")

\* ------------------------------------------------------------ hours log
\* the local half of dbGetHoursLog(filters)
LocalHoursLog_WithRemoteRows(filters) == lsHours \o BackendHours

LocalHoursLog_OwnRowsOnly(filters) ==
    SelectSeq(lsHours, LAMBDA h : h.writtenBy = lsUser)

LocalHoursLog(filters) ==
    LET afterStart == IF TruthyNum(filters, "startDate")
                      THEN SelectSeq(lsHours, LAMBDA h : h.date >= filters.startDate)
                      ELSE lsHours
    IN IF TruthyNum(filters, "endDate")
       THEN SelectSeq(afterStart, LAMBDA h : h.date <= filters.endDate)
       ELSE afterStart

HoursWhere(filters) ==
    Merge(IF TruthyNum(filters, "startDate") THEN [k \in {"date>="} |-> filters.startDate]
          ELSE EmptyObj,
          IF TruthyNum(filters, "endDate") THEN [k \in {"date<="} |-> filters.endDate]
          ELSE EmptyObj)

DbGetHoursLog(filters, resp) ==
    /\ Decided(resp)
    /\ last' = IF ~isDatabaseAvailable
               THEN Call("getHoursLog", filters, "return", LocalHoursLog(filters),
                         <<>>, Quiet, "")
               ELSE RemoteList("getHoursLog", filters, "hours_log", BackendHours,
                               HoursWhere(filters), resp)
    /\ UNCHANGED <<configVars, asyncVars, appVolunteers, appVars, dbVars, authVars, lsProfile, tableVars, clock>>

DbAddHoursEntry(entry, resp) ==
    /\ Decided(resp)
    /\ IF ~isDatabaseAvailable
       THEN /\ LocalRows < MaxRows
            /\ lsHours' = SetItem(lsHours, Append(lsHours, Stamp(NewLocalRow(entry))), resp)
            /\ last' = LocalWrite("addHoursEntry", entry, NewLocalRow(entry), resp)
       ELSE /\ last' = RemoteInsert("addHoursEntry", entry, "hours_log", resp)
            /\ UNCHANGED lsHours
    /\ UNCHANGED <<configVars, asyncVars, appVolunteers, appVars, dbVars, authVars, lsProfile, lsEvents, lsLetters, clock>>

DbDeleteHoursEntry(id, resp) ==
    /\ Decided(resp)
    /\ IF ~isDatabaseAvailable
       THEN /\ lsHours' = SetItem(lsHours, WithoutId(lsHours, id), resp)
            /\ last' = LocalWrite("deleteHoursEntry", id, NULL, resp)
       ELSE /\ last' = RemoteDelete("deleteHoursEntry", id, "hours_log", resp)
            /\ UNCHANGED lsHours
    /\ UNCHANGED <<configVars, asyncVars, appVolunteers, appVars, dbVars, authVars, lsProfile, lsEvents, lsLetters, clock>>

\* ------------------------------------------------------------ events
LocalEvents(filters) ==
    IF TruthyFlag(filters, "upcoming")
    THEN SelectSeq(lsEvents, LAMBDA e : e.date >= Today)
    ELSE lsEvents

EventFilters == { EmptyObj, [upcoming |-> TRUE] }

DbGetEvents(filters, resp) ==
    /\ Decided(resp)
    /\ last' = IF ~isDatabaseAvailable
               THEN Call("getEvents", filters, "return", LocalEvents(filters),
                         <<>>, Quiet, "")
               ELSE RemoteList("getEvents", filters, "events", BackendEvents,
                               IF TruthyFlag(filters, "upcoming")
                               THEN [k \in {"date>="} |-> Today] ELSE EmptyObj,
                               resp)
    /\ UNCHANGED <<configVars, asyncVars, appVolunteers, appVars, dbVars, authVars, lsProfile, tableVars, clock>>

DbAddEvent(event, resp) ==
    /\ Decided(resp)
    /\ IF ~isDatabaseAvailable
       THEN /\ LocalRows < MaxRows
            /\ lsEvents' = SetItem(lsEvents, Append(lsEvents, Stamp(NewLocalRow(event))), resp)
            /\ last' = LocalWrite("addEvent", event, NewLocalRow(event), resp)
       ELSE /\ last' = RemoteInsert("addEvent", event, "events", resp)
            /\ UNCHANGED lsEvents
    /\ UNCHANGED <<configVars, asyncVars, appVolunteers, appVars, dbVars, authVars, lsProfile, lsHours, lsLetters, clock>>

DbDeleteEvent(id, resp) ==
    /\ Decided(resp)
    /\ IF ~isDatabaseAvailable
       THEN /\ lsEvents' = SetItem(lsEvents, WithoutId(lsEvents, id), resp)
            /\ last' = LocalWrite("deleteEvent", id, NULL, resp)
       ELSE /\ last' = RemoteDelete("deleteEvent", id, "events", resp)
            /\ UNCHANGED lsEvents
    /\ UNCHANGED <<configVars, asyncVars, appVolunteers, appVars, dbVars, authVars, lsProfile, lsHours, lsLetters, clock>>

\* ------------------------------------------------------------ letters
LetterFilters == { EmptyObj, [type |-> <<"thankyou">>] }

DbGetLetters(filters, resp) ==
    /\ Decided(resp)
    /\ last' = IF ~isDatabaseAvailable
               THEN Call("getLetters", filters, "return", lsLetters, <<>>, Quiet, "")
               ELSE RemoteList("getLetters", filters, "letters", BackendLetters,
                               IF Has(filters, "type")
                               THEN [letter_type |-> filters.type] ELSE EmptyObj,
                               resp)
    /\ UNCHANGED <<configVars, asyncVars, appVolunteers, appVars, dbVars, authVars, lsProfile, tableVars, clock>>

DbSaveLetter(letter, resp) ==
    /\ Decided(resp)
    /\ IF ~isDatabaseAvailable
       THEN /\ LocalRows < MaxRows
            /\ lsLetters' = SetItem(lsLetters, Append(lsLetters, Stamp(NewLocalRow(letter))), resp)
            /\ last' = LocalWrite("saveLetter", letter, NewLocalRow(letter), resp)
       ELSE /\ last' = RemoteInsert("saveLetter", letter, "letters", resp)
            /\ UNCHANGED lsLetters
    /\ UNCHANGED <<configVars, asyncVars, appVolunteers, appVars, dbVars, authVars, lsProfile, lsHours, lsEvents, clock>>

\* ------------------------------------------------------------ opportunities
\* filters handed to getOpportunities
OpportunityFilters ==
    { Merge(Merge(c, v), l) :
          c \in { EmptyObj, [causeArea |-> <<"environment">>] },
          v \in { EmptyObj, [isVirtual |-> TRUE], [isVirtual |-> FALSE] },
          l \in { EmptyObj, [limit |-> 0], [limit |-> 1] } }

\* what the hosted opportunities table holds when a select arrives
BackendOpportunities ==
    << [id |-> <<"o1">>, is_active |-> TRUE, is_virtual |-> FALSE, updated_at |-> 1,
        cause_areas |-> {<<"environment">>}],
       [id |-> <<"o2">>, is_active |-> FALSE, is_virtual |-> TRUE, updated_at |-> 2,
        cause_areas |-> {<<"environment">>}],
       [id |-> <<"o3">>, is_active |-> TRUE, is_virtual |-> TRUE, updated_at |-> 3,
        cause_areas |-> {<<"environment">>, <<"animals">>}],
       [id |-> <<"o4">>, is_active |-> TRUE, is_virtual |-> TRUE, updated_at |-> 0,
        cause_areas |-> {<<"animals">>}] >>

\* the opportunities of the bundled data/opportunities.json: active listings
StaticOpportunities ==
    << [id |-> <<"s1">>, is_active |-> TRUE, is_virtual |-> FALSE, updated_at |-> 0,
        cause_areas |-> {<<"animals">>}],
       [id |-> <<"s2">>, is_active |-> TRUE, is_virtual |-> TRUE, updated_at |-> 0,
        cause_areas |-> {<<"environment">>}] >>

\* .order('updated_at', { ascending: false })
RECURSIVE InsertDesc(_, _)
InsertDesc(r, sorted) ==
    IF Len(sorted) = 0 THEN <<r>>
    ELSE IF r.updated_at > Head(sorted).updated_at THEN <<r>> \o sorted
    ELSE <<Head(sorted)>> \o InsertDesc(r, Tail(sorted))

RECURSIVE OrderByUpdatedDesc(_)
OrderByUpdatedDesc(rows) ==
    IF Len(rows) = 0 THEN <<>>
    ELSE InsertDesc(rows[Len(rows)], OrderByUpdatedDesc(SubSeq(rows, 1, Len(rows) - 1)))

\* the predicates the query of dbGetOpportunities carries
OpportunityWhere(filters) ==
    Merge(Merge([is_active |-> TRUE],
                IF Has(filters, "causeArea") /\ Len(filters.causeArea) > 0
                THEN [k \in {"cause_areas@>"} |-> filters.causeArea] ELSE EmptyObj),
          IF Has(filters, "isVirtual")
          THEN [is_virtual |-> filters.isVirtual] ELSE EmptyObj)

OpportunityMatches(r, where) ==
    /\ r.is_active = where.is_active
    /\ Has(where, "cause_areas@>") => where["cause_areas@>"] \in r.cause_areas
    /\ Has(where, "is_virtual") => r.is_virtual = where.is_virtual

\* .limit(n)
Limit(rows, n) == SubSeq(rows, 1, IF n < Len(rows) THEN n ELSE Len(rows))

\* the rows the remote query of dbGetOpportunities returns
RemoteOpportunities(filters) ==
    LET hit == OrderByUpdatedDesc(
                   SelectSeq(BackendOpportunities,
                             LAMBDA r : OpportunityMatches(r, OpportunityWhere(filters))))
    IN IF TruthyNum(filters, "limit") THEN Limit(hit, filters.limit) ELSE hit

\* how the read of the bundled snapshot ends: the file parses and holds the
\* list ("ok"), parses without an opportunities key ("nokey"), or fetch() or
\* response.json() fails ("fails")
FetchOutcomes == {"ok", "nokey", "fails"}

\* the fallback half of dbGetOpportunities
StaticFallback_SurfacesError(fetch) ==
    IF fetch = "ok" THEN StaticOpportunities ELSE <<BackendError>>

StaticFallback(fetch) == IF fetch = "ok" THEN StaticOpportunities ELSE <<>>

\* dbGetOpportunities(filters). resp: the backend's answer to the query; fetch:
\* how the read of the snapshot ends. The call is recorded with both.
DbGetOpportunities(filters, resp, fetch) ==
    /\ ~isDatabaseAvailable => resp = "ok"
    /\ (isDatabaseAvailable /\ resp = "ok") => fetch = "ok"
    /\ LET q == Req("select", "opportunities",
                    IF TruthyNum(filters, "limit") THEN [limit |-> filters.limit]
                    ELSE EmptyObj,
                    OpportunityWhere(filters))
           f == Req("fetch", "opportunities.json", EmptyObj, EmptyObj)
           arg == [filters |-> filters, resp |-> resp, fetch |-> fetch]
       IN last' = IF isDatabaseAvailable /\ resp = "ok"
                  THEN Call("getOpportunities", arg, "return",
                            RemoteOpportunities(filters), <<q>>, Quiet, "")
                  ELSE Call("getOpportunities", arg, "return",
                            StaticFallback(fetch),
                            IF isDatabaseAvailable THEN <<q, f>> ELSE <<f>>, Quiet, "")
    /\ UNCHANGED <<configVars, asyncVars, appVolunteers, appVars, dbVars, authVars, lsProfile, tableVars, clock>>

\* ------------------------------------------------------------ app.js
\* entries handed to HoursTracker.logHours and ScheduleManager.addEvent
LogInputs ==
    { [organization |-> <<"Food Bank">>, date |-> 0, hours |-> 4],
      [date |-> -8, hours |-> 2],
      [organization |-> <<"Shelter">>, date |-> 0] }
ScheduleInputs ==
    { [title |-> <<"Shift">>, date |-> 1],
      [title |-> <<"Walk">>, date |-> 2, id |-> <<"x">>, sendReminders |-> TRUE] }

\* periods handed to getTotalHours
Periods == {"all", "week"}
DaysPerWeek == 7

\* Math.random().toString(36).substr(2)
RandomSuffixes == {"r1", "r2", "r3"}

Digits36 ==
    Digits \o <<"a", "b", "c", "d", "e", "f", "g", "h", "i", "j", "k", "l", "m",
                "n", "o", "p", "q", "r", "s", "t", "u", "v", "w", "x", "y", "z">>

\* Number.prototype.toString(36)
RECURSIVE ToBase36(_)
ToBase36(n) ==
    IF n < 36 THEN <<Digits36[n + 1]>>
    ELSE ToBase36(n \div 36) \o <<Digits36[(n % 36) + 1]>>

\* generateId(), with rnd the text Math.random() contributes
generateId(rnd) == ToBase36(clock) \o <<rnd>>

AppItems == Len(appHours) + Len(appSchedule)

\* Math.random() does not repeat a suffix that an id held by AppState carries
FreshSuffix(rnd) ==
    /\ \A i \in 1..Len(appHours) : appHours[i].id # generateId(rnd)
    /\ \A i \in 1..Len(appSchedule) : appSchedule[i].id # generateId(rnd)

\* JSON.stringify(AppState) as saveAppState() stores it
SavedState(hours, schedule) ==
    [user |-> appUser, volunteers |-> appVolunteers, hours |-> hours,
     schedule |-> schedule]

\* loadAppState(), called by the DOMContentLoaded handler of app.js
LoadAppState ==
    /\ appLoaded
    /\ "app" \notin ran
    /\ ran' = ran \cup {"app"}
    /\ IF lsState # NULL
       THEN /\ appUser' = lsState.user
            /\ appVolunteers' = lsState.volunteers
            /\ appHours' = lsState.hours
            /\ appSchedule' = lsState.schedule
       ELSE UNCHANGED <<appUser, appVolunteers, appHours, appSchedule>>
    /\ last' = Call("loadAppState", NULL, "return", NULL, <<>>, Quiet, "")
    /\ UNCHANGED <<configVars, asyncVars, dbVars, session, auth, demoModal, lsUser,
                   lsProfile, tableVars, lsState, clock>>

\* the item HoursTracker.logHours(entry) builds
HoursEntry(entry, rnd) ==
    Merge(Merge([id |-> generateId(rnd)], entry),
          [logged |-> IsoString(clock), verified |-> FALSE])

\* HoursTracker.logHours(entry). saved: localStorage accepts the new state.
LogHours(entry, rnd, saved) ==
    /\ appLoaded
    /\ "app" \in ran
    /\ AppItems < MaxItems
    /\ FreshSuffix(rnd)
    /\ appHours' = Append(appHours, HoursEntry(entry, rnd))
    /\ lsState' = IF saved THEN SavedState(appHours', appSchedule) ELSE lsState
    /\ last' = Call("logHours", entry, "return", HoursEntry(entry, rnd), <<>>, Quiet, "")
    /\ UNCHANGED <<configVars, asyncVars, appVolunteers, dbVars, authVars, lsProfile, tableVars, appSchedule, clock>>

\* entry.hours || 0
HoursOf(entry) == IF TruthyNum(entry, "hours") THEN entry.hours ELSE 0

\* hours.reduce((total, entry) => total + (entry.hours || 0), 0)
RECURSIVE SumHours(_)
SumHours(rows) ==
    IF Len(rows) = 0 THEN 0
    ELSE SumHours(SubSeq(rows, 1, Len(rows) - 1)) + HoursOf(rows[Len(rows)])

\* the entries HoursTracker.getTotalHours(period) adds up ('all' and 'week')
HoursInPeriod(period) ==
    IF period = "all" THEN appHours
    ELSE SelectSeq(appHours,
                   LAMBDA h : Has(h, "date")
                              /\ h.date * TicksPerDay >= clock - DaysPerWeek * TicksPerDay)

getTotalHours(period) == SumHours(HoursInPeriod(period))

\* a call of HoursTracker.getTotalHours(period)
GetTotalHours(period) ==
    /\ appLoaded
    /\ "app" \in ran
    /\ last' = Call("getTotalHours", [period |-> period], "return",
                    getTotalHours(period), <<>>, Quiet, "")
    /\ UNCHANGED <<configVars, asyncVars, appVolunteers, appVars, dbVars, authVars, lsProfile, tableVars, clock>>

\* the entries generateReport(period) counts and groups: only 'month' narrows
\* them, every other period ('all' and 'week' here) keeps all of AppState.hours
ReportEntries(period) == appHours

\* entry.organization || 'Unspecified'
OrganizationOf(entry) ==
    IF Has(entry, "organization") /\ Len(entry.organization) > 0
    THEN entry.organization ELSE <<"Unspecified">>

\* HoursTracker.groupByOrganization(entries)
groupByOrganization(entries) ==
    LET of(org) == SelectSeq(entries, LAMBDA e : OrganizationOf(e) = org)
    IN [org \in {OrganizationOf(entries[i]) : i \in 1..Len(entries)} |->
           [hours |-> SumHours(of(org)), count |-> Len(of(org))]]

\* the object HoursTracker.generateReport(period) returns; the quotient
\* hours / entries.length is kept as its numerator and denominator
generateReport(period) ==
    LET hours == getTotalHours(period)
        entries == ReportEntries(period)
    IN [totalHours |-> hours,
        entriesCount |-> Len(entries),
        averagePerEntry |-> IF Len(entries) > 0
                            THEN [num |-> hours, den |-> Len(entries)]
                            ELSE [num |-> 0, den |-> 1],
        byOrganization |-> groupByOrganization(entries)]

\* a call of HoursTracker.generateReport(period)
GenerateReport(period) ==
    /\ appLoaded
    /\ "app" \in ran
    /\ last' = Call("generateReport", [period |-> period], "return",
                    generateReport(period), <<>>, Quiet, "")
    /\ UNCHANGED <<configVars, asyncVars, appVolunteers, appVars, dbVars, authVars,
                   lsProfile, tableVars, clock>>

\* the reminder scheduleReminder(event) stores: one day before the event
Reminder(item) ==
    [type |-> <<"email">>, scheduledFor |-> [isoDay |-> item.date - 1], sent |-> FALSE]

\* the item ScheduleManager.addEvent(event) builds
ScheduleItem(event, rnd) ==
    Merge(Merge([id |-> generateId(rnd)], event),
          [created |-> IsoString(clock), reminders |-> <<>>])

\* ScheduleManager.addEvent(event). saved, savedAgain: localStorage accepts the
\* state saved after the push and the one saved after the reminder is stored.
AddScheduleEvent(event, rnd, saved, savedAgain) ==
    /\ appLoaded
    /\ "app" \in ran
    /\ AppItems < MaxItems
    /\ FreshSuffix(rnd)
    /\ LET item == ScheduleItem(event, rnd)
           pushed == Append(appSchedule, item)
           reminded == [item EXCEPT !.reminders = <<Reminder(item)>>]
       IN IF TruthyFlag(event, "sendReminders")
          THEN /\ appSchedule' = Append(appSchedule, reminded)
               /\ lsState' = IF savedAgain THEN SavedState(appHours, appSchedule')
                             ELSE IF saved THEN SavedState(appHours, pushed)
                             ELSE lsState
               /\ last' = Call("addScheduleEvent", event, "return", reminded,
                               <<>>, Quiet, "")
          ELSE /\ savedAgain = saved
               /\ appSchedule' = pushed
               /\ lsState' = IF saved THEN SavedState(appHours, pushed) ELSE lsState
               /\ last' = Call("addScheduleEvent", event, "return", item, <<>>, Quiet, "")
    /\ UNCHANGED <<configVars, asyncVars, appVolunteers, dbVars, authVars, lsProfile, tableVars, appHours, clock>>

\* formatDateForICS(date): the UTC instant as YYYYMMDDTHHMMSSZ
formatDateForICS(date) == [icsUtc |-> date]

\* event.description || '', event.location || ''
TextOrEmpty(o, k) == IF Has(o, k) THEN o[k] ELSE <<>>

\* the lines exportToICS() writes for one event
VEventLines(event) ==
    << <<"BEGIN:VEVENT">>,
       <<"UID:">> \o event.id \o <<"@volunteerconnect">>,
       <<"DTSTART:", formatDateForICS(event.date)>>,
       <<"SUMMARY:">> \o event.title,
       <<"DESCRIPTION:">> \o TextOrEmpty(event, "description"),
       <<"LOCATION:">> \o TextOrEmpty(event, "location"),
       <<"END:VEVENT">> >>

RECURSIVE AllVEventLines(_)
AllVEventLines(schedule) ==
    IF Len(schedule) = 0 THEN <<>>
    ELSE VEventLines(Head(schedule)) \o AllVEventLines(Tail(schedule))

\* the text of the calendar file, line by line
IcsText(schedule) ==
    << <<"BEGIN:VCALENDAR">>, <<"VERSION:2.0">>, <<"PRODID:-//VolunteerConnect//EN">> >>
    \o AllVEventLines(schedule) \o << <<"END:VCALENDAR">> >>

\* ScheduleManager.exportToICS(): the file offered for download
ExportToICS ==
    /\ appLoaded
    /\ "app" \in ran
    /\ last' = Call("exportToICS", NULL, "return", IcsText(appSchedule), <<>>, Quiet, "")
    /\ UNCHANGED <<configVars, asyncVars, appVolunteers, appVars, dbVars, authVars, lsProfile, tableVars, clock>>

\* ------------------------------------------------------------ calls in flight
\* An async function runs to its first await when it is called and is resumed
\* by the event loop later.  The local branch of dbAddHoursEntry
\* (database.js:257-266) holds no await between getItem and setItem; the
\* remote branch awaits the user lookup and the insert.
LocalInsertSuspends_AwaitsBeforeWrite == TRUE

LocalInsertSuspends == FALSE

\* dbAddHoursEntry(entry) called without awaiting the calls started before it
StartAddHoursEntry(entry) ==
    /\ IF ~isDatabaseAvailable
       THEN /\ LocalRows + Len(pending) < MaxRows
            /\ IF LocalInsertSuspends
               THEN /\ pending' = Append(pending,
                                         [mode |-> "local", entry |-> entry,
                                          read |-> lsHours,
                                          row |-> Stamp(NewLocalRow(entry))])
                    /\ last' = Call("addHoursEntry", entry, "pending", NULL,
                                    <<>>, Quiet, "")
                    /\ UNCHANGED lsHours
               ELSE /\ lsHours' = Append(lsHours, Stamp(NewLocalRow(entry)))
                    /\ last' = Call("addHoursEntry", entry, "return",
                                    NewLocalRow(entry), <<>>, Quiet, "")
                    /\ UNCHANGED pending
       ELSE /\ Len(pending) < MaxPending
            /\ pending' = Append(pending,
                                 [mode |-> "remote", entry |-> entry,
                                  read |-> <<>>, row |-> NULL])
            /\ last' = Call("addHoursEntry", entry, "pending", NULL, <<>>, Quiet, "")
            /\ UNCHANGED lsHours
    /\ UNCHANGED <<configVars, appVars, appVolunteers, timers, shown, permission, dbVars, authVars,
                   lsProfile, lsEvents, lsLetters, clock>>

\* the event loop resumes the i-th suspended call, which runs to its end
ResumeAddHoursEntry(i, resp) ==
    /\ i \in 1..Len(pending)
    /\ pending' = RemoveAt(pending, i)
    /\ IF pending[i].mode = "local"
       THEN /\ resp = "ok"
            /\ lsHours' = Append(pending[i].read, pending[i].row)
            /\ last' = Call("addHoursEntry", pending[i].entry, "return",
                            Unstamp(pending[i].row), <<>>, Quiet, "")
       ELSE /\ session = NULL => resp = "ok"
            /\ last' = RemoteInsert("addHoursEntry", pending[i].entry, "hours_log", resp)
            /\ UNCHANGED lsHours
    /\ UNCHANGED <<configVars, appVars, appVolunteers, timers, shown, permission, dbVars, authVars,
                   lsProfile, lsEvents, lsLetters, clock>>

\* ------------------------------------------------------------ outreach
\* contacts handed to trackOutreach; statuses, notes and ids handed to updateStatus
Contacts == { [name |-> <<"John">>, organization |-> <<"Food Bank">>] }
Statuses == {<<"responded">>}
NotesGiven == {<<"called">>}
UnknownId == <<"nobody">>

\* the record VolunteerManager.trackOutreach(contact) builds
Outreach(contact, rnd) ==
    [id |-> generateId(rnd), contact |-> contact, date |-> IsoString(clock),
     status |-> <<"contacted">>, followUpDate |-> NULL, notes |-> <<>>]

\* JSON.stringify(AppState) with the volunteers as they are after the call
SavedVolunteers(volunteers) ==
    [user |-> appUser, volunteers |-> volunteers, hours |-> appHours,
     schedule |-> appSchedule]

\* VolunteerManager.trackOutreach(contact). saved: localStorage accepts the state.
TrackOutreach(contact, rnd, saved) ==
    /\ appLoaded
    /\ "app" \in ran
    /\ Len(appVolunteers) < MaxItems
    /\ \A i \in 1..Len(appVolunteers) : appVolunteers[i].id # generateId(rnd)
    /\ appVolunteers' = Append(appVolunteers, Outreach(contact, rnd))
    /\ lsState' = IF saved THEN SavedVolunteers(appVolunteers') ELSE lsState
    /\ last' = Call("trackOutreach", contact, "return", Outreach(contact, rnd),
                    <<>>, Quiet, "")
    /\ UNCHANGED <<configVars, asyncVars, dbVars, authVars, lsProfile, tableVars,
                   appHours, appSchedule, clock>>

\* the ids of the records AppState.volunteers holds
StoredIds == {appVolunteers[i].id : i \in 1..Len(appVolunteers)}

\* AppState.volunteers.find(v => v.id === id): its index, 0 when there is none
FindVolunteer(id) ==
    IF \E i \in 1..Len(appVolunteers) : appVolunteers[i].id = id
    THEN CHOOSE i \in 1..Len(appVolunteers) :
             /\ appVolunteers[i].id = id
             /\ \A j \in 1..(i - 1) : appVolunteers[j].id # id
    ELSE 0

\* the value of the notes parameter: '' when the caller passes none
NotesParameter(given, notes, volunteer) == IF given THEN notes ELSE <<>>

\* VolunteerManager.updateStatus(id, status, notes). given: the caller passes
\* notes. saved: localStorage accepts the state.
UpdateStatus(id, status, given, notes, saved) ==
    /\ appLoaded
    /\ "app" \in ran
    /\ LET i == FindVolunteer(id)
           arg == [id |-> id, status |-> status, given |-> given, notes |-> notes]
       IN IF i > 0
          THEN LET updated ==
                       Merge(appVolunteers[i],
                             [status |-> status,
                              notes |-> NotesParameter(given, notes, appVolunteers[i]),
                              lastUpdated |-> IsoString(clock)])
               IN /\ appVolunteers' = [appVolunteers EXCEPT ![i] = updated]
                  /\ lsState' = IF saved THEN SavedVolunteers(appVolunteers')
                                ELSE lsState
                  /\ last' = Call("updateStatus", arg, "return", updated,
                                  <<>>, Quiet, "")
          ELSE /\ last' = Call("updateStatus", arg, "return", NULL, <<>>, Quiet, "")
               /\ UNCHANGED <<appVolunteers, lsState>>
    /\ UNCHANGED <<configVars, asyncVars, dbVars, authVars, lsProfile, tableVars,
                   appHours, appSchedule, clock>>

\* ------------------------------------------------------------ notifications
\* events handed to NotificationManager.scheduleReminder and the lead of the
\* reminder (minutesBefore), in ticks of the clock
ReminderEvents ==
    { [id |-> <<"e1">>, title |-> <<"Shift">>, date |-> 1],
      [id |-> <<"e2">>, title |-> <<"Walk">>, date |-> 0] }

ReminderLeads == {1, 2}

\* new Date(event.date).getTime() - minutesBefore * 60 * 1000
ReminderTime(event, minutesBefore) == event.date * TicksPerDay - minutesBefore

\* the page is loaded again: every script starts from its top-level
\* declarations, timers and suspended calls of the old page are gone, while
\* localStorage, the hosted session and the notification permission stay
Reload ==
    /\ supabaseClient' = NULL
    /\ dbInitialized' = FALSE
    /\ auth' = NULL
    /\ demoModal' = FALSE
    /\ appUser' = NULL
    /\ appVolunteers' = <<>>
    /\ appHours' = <<>>
    /\ appSchedule' = <<>>
    /\ pending' = <<>>
    /\ timers' = <<>>
    /\ ran' = {}
    /\ last' = Call("reload", NULL, "return", NULL, <<>>, Quiet, "")
    /\ UNCHANGED <<configVars, session, lsUser, lsProfile, tableVars, lsState,
                   shown, permission, clock>>

\* NotificationManager.requestPermission(): the user answers the prompt
RequestPermission(answer) ==
    /\ appLoaded
    /\ permission' = answer
    /\ last' = Call("requestPermission", NULL, "return", answer = "granted",
                    <<>>, Quiet, "")
    /\ UNCHANGED <<configVars, pending, timers, shown, appVolunteers, appVars,
                   dbVars, session, auth, demoModal, lsUser, lsProfile, tableVars,
                   appUser, clock, ran>>

\* the timers after scheduleReminder: one more callback when the reminder time
\* is in the future, whatever timers are already waiting for the event
TimersAfterSchedule(event, minutesBefore) ==
    IF ReminderTime(event, minutesBefore) > clock
    THEN Append(timers, [tag |-> event.id,
                         due |-> ReminderTime(event, minutesBefore)])
    ELSE timers

\* NotificationManager.scheduleReminder(event, minutesBefore)
ScheduleReminder(event, minutesBefore) ==
    /\ appLoaded
    /\ Len(timers) < MaxTimers
    /\ timers' = TimersAfterSchedule(event, minutesBefore)
    /\ last' = Call("scheduleReminder",
                    [event |-> event, minutesBefore |-> minutesBefore],
                    "return", NULL, <<>>, Quiet, "")
    /\ UNCHANGED <<configVars, pending, shown, permission, appVolunteers, appVars,
                   dbVars, session, auth, demoModal, lsUser, lsProfile, tableVars,
                   appUser, clock, ran>>

\* the callback of the i-th timer runs once its delay has passed:
\* NotificationManager.send shows the notification if permission was granted
FireTimer(i) ==
    /\ i \in 1..Len(timers)
    /\ clock >= timers[i].due
    /\ timers' = RemoveAt(timers, i)
    /\ shown' = IF permission = "granted" THEN Append(shown, timers[i].tag)
                ELSE shown
    /\ last' = Call("reminder", timers[i].tag, "return", NULL, <<>>, Quiet, "")
    /\ UNCHANGED <<configVars, pending, permission, appVolunteers, appVars,
                   dbVars, session, auth, demoModal, lsUser, lsProfile, tableVars,
                   appUser, clock, ran>>

\* ------------------------------------------------------------ specifications
Responses == {"ok", "error"}

Jane == <<"Jane">>
JaneEmail == <<"jane", At, "x.com">>
KimEmail == <<"kim", At, "x.com">>

\* local mode: the placeholders of database.js:18-19 and auth.js:13 are in place
InitLocal ==
    /\ InitCommon
    /\ configured = FALSE
    /\ firebaseReady = FALSE

\* the demo login dialog and the two sign-out entry points
NextDemo ==
    \/ Tick
    \/ \E fb \in {"absent", "ok"} : InitializeFirebase(fb)
    \/ SignInWithGoogleDemo
    \/ CloseDemoLogin
    \/ \E n \in DemoNames, e \in DemoEmails : CompleteDemoLogin(n, e)
    \/ SignOut(TRUE)
    \/ DbSignOut(TRUE)

SpecDemo == InitLocal /\ [][NextDemo]_vars

\* every source of an auth state change, on any configuration
InitAny ==
    /\ InitCommon
    /\ configured \in BOOLEAN
    /\ firebaseReady \in BOOLEAN

NextNotify ==
    \/ Tick
    \/ \E env \in InitEnvs : InitDatabase(env)
    \/ \E fb \in {"absent", "throws", "ok"} : InitializeFirebase(fb)
    \/ \E u \in FirebaseUsers \cup {NULL} : FirebaseAuthStateChanged(u)
    \/ \E su \in SessionUsers \cup {NULL} : SupabaseAuthEvent(su)
    \/ SignInWithGoogleDemo
    \/ CloseDemoLogin
    \/ \E n \in {<<>>, Jane} : CompleteDemoLogin(n, JaneEmail)
    \/ \E ok \in BOOLEAN : SignOut(ok)
    \/ \E ok \in BOOLEAN : DbSignOut(ok)

SpecNotify == InitAny /\ [][NextNotify]_vars

\* local mode: two people share the browser, signing in and out around writes
NextOwner ==
    \/ SignInWithGoogleDemo
    \/ \E e \in {JaneEmail, KimEmail} : CompleteDemoLogin(Jane, e)
    \/ SignOut(TRUE)
    \/ DbSignOut(TRUE)
    \/ DbGetProfile("ok")
    \/ DbUpdateProfile([display_name |-> Jane], "ok")
    \/ DbGetHoursLog(EmptyObj, "ok")
    \/ DbAddHoursEntry([date |-> 1, hours |-> 4], "ok")
    \/ DbGetEvents(EmptyObj, "ok")
    \/ \E x \in EventInputs : DbAddEvent(x, "ok")
    \/ DbGetLetters(EmptyObj, "ok")
    \/ \E x \in LetterInputs : DbSaveLetter(x, "ok")

InitOwner ==
    /\ InitLocal
    /\ authVariant = 1
    /\ appLoaded = TRUE

SpecOwner == InitOwner /\ [][NextOwner]_vars

\* local mode: inserts, deletes and reads of the three tables
NextTables ==
    \/ Tick
    \/ \E f \in HoursFilters : DbGetHoursLog(f, "ok")
    \/ \E x \in HoursInputs : DbAddHoursEntry(x, "ok")
    \/ \E id \in DeleteIds : DbDeleteHoursEntry(id, "ok")
    \/ \E f \in EventFilters : DbGetEvents(f, "ok")
    \/ \E x \in EventInputs : DbAddEvent(x, "ok")
    \/ \E id \in DeleteIds : DbDeleteEvent(id, "ok")
    \/ \E f \in LetterFilters : DbGetLetters(f, "ok")
    \/ \E x \in LetterInputs : DbSaveLetter(x, "ok")

SpecTables == InitLocal /\ [][NextTables]_vars

\* the profile in both modes
NextProfile ==
    \/ Tick
    \/ \E env \in InitEnvs : InitDatabase(env)
    \/ \E su \in SessionUsers \cup {NULL} : SupabaseAuthEvent(su)
    \/ \E resp \in Responses : DbGetProfile(resp)
    \/ \E x \in ProfileInputs, resp \in Responses : DbUpdateProfile(x, resp)

InitNoFirebase ==
    /\ InitAny
    /\ firebaseReady = FALSE

SpecProfile == InitNoFirebase /\ [][NextProfile]_vars

\* the backend is configured: initialisation, hosted sessions, every data operation
InitRemote ==
    /\ InitCommon
    /\ configured = TRUE
    /\ firebaseReady = FALSE
    /\ authVariant = 1
    /\ appLoaded = TRUE

NextRemote ==
    \/ \E env \in InitEnvs : InitDatabase(env)
    \/ \E su \in SessionUsers \cup {NULL} : SupabaseAuthEvent(su)
    \/ \E ok \in BOOLEAN : DbSignOut(ok)
    \/ \E resp \in Responses : DbGetProfile(resp)
    \/ \E x \in ProfileInputs, resp \in Responses : DbUpdateProfile(x, resp)
    \/ \E f \in HoursFilters, resp \in Responses : DbGetHoursLog(f, resp)
    \/ \E x \in HoursInputs, resp \in Responses : DbAddHoursEntry(x, resp)
    \/ \E id \in DeleteIds, resp \in Responses : DbDeleteHoursEntry(id, resp)
    \/ \E f \in EventFilters, resp \in Responses : DbGetEvents(f, resp)
    \/ \E x \in EventInputs, resp \in Responses : DbAddEvent(x, resp)
    \/ \E id \in DeleteIds, resp \in Responses : DbDeleteEvent(id, resp)
    \/ \E f \in LetterFilters, resp \in Responses : DbGetLetters(f, resp)
    \/ \E x \in LetterInputs, resp \in Responses : DbSaveLetter(x, resp)

SpecRemote == InitRemote /\ [][NextRemote]_vars

\* initialisation called again and again, with the hours log served in between
NextInit ==
    \/ Tick
    \/ \E env \in InitEnvs : InitDatabase(env)
    \/ \E su \in SessionUsers \cup {NULL} : SupabaseAuthEvent(su)
    \/ \E f \in HoursFilters, resp \in Responses : DbGetHoursLog(f, resp)
    \/ \E x \in HoursInputs, resp \in Responses : DbAddHoursEntry(x, resp)

SpecInit == InitNoFirebase /\ [][NextInit]_vars

\* the public opportunities read, in both modes, with and without a session
NextOpportunities ==
    \/ \E env \in InitEnvs : InitDatabase(env)
    \/ \E su \in SessionUsers \cup {NULL} : SupabaseAuthEvent(su)
    \/ \E f \in OpportunityFilters, resp \in Responses, fetch \in FetchOutcomes :
           DbGetOpportunities(f, resp, fetch)

SpecOpportunities == InitNoFirebase /\ [][NextOpportunities]_vars

\* local mode: the in-memory trackers of app.js next to the data layer
NextApp ==
    \/ Tick
    \/ LoadAppState
    \/ \E x \in LogInputs, rnd \in RandomSuffixes, saved \in BOOLEAN :
           LogHours(x, rnd, saved)
    \/ \E p \in Periods : GetTotalHours(p)
    \/ \E p \in Periods : GenerateReport(p)
    \/ DbAddHoursEntry([organization |-> <<"Food Bank">>, date |-> 0, hours |-> 4], "ok")
    \/ \E x \in ScheduleInputs, rnd \in RandomSuffixes, saved, savedAgain \in BOOLEAN :
           AddScheduleEvent(x, rnd, saved, savedAgain)
    \/ ExportToICS

SpecApp == InitOwner /\ [][NextApp]_vars

\* local mode: inserts and deletes whose write to localStorage may fail
StorageOutcomes == {"ok", "quota"}

NextStorage ==
    \/ Tick
    \/ DbGetHoursLog(EmptyObj, "ok")
    \/ \E x \in HoursInputs, resp \in StorageOutcomes : DbAddHoursEntry(x, resp)
    \/ \E id \in DeleteIds, resp \in StorageOutcomes : DbDeleteHoursEntry(id, resp)
    \/ DbGetEvents(EmptyObj, "ok")
    \/ \E x \in EventInputs, resp \in StorageOutcomes : DbAddEvent(x, resp)
    \/ \E id \in DeleteIds, resp \in StorageOutcomes : DbDeleteEvent(id, resp)
    \/ DbGetLetters(EmptyObj, "ok")
    \/ \E x \in LetterInputs, resp \in StorageOutcomes : DbSaveLetter(x, resp)

SpecStorage == InitOwner /\ [][NextStorage]_vars

\* inserts into the hours log started without awaiting one another, in both modes
NextAsync ==
    \/ Tick
    \/ \E env \in InitEnvs : InitDatabase(env)
    \/ \E su \in SessionUsers \cup {NULL} : SupabaseAuthEvent(su)
    \/ \E x \in HoursInputs : StartAddHoursEntry(x)
    \/ \E i \in 1..MaxPending, resp \in Responses : ResumeAddHoursEntry(i, resp)
    \/ DbGetHoursLog(EmptyObj, "ok")

SpecAsync == InitNoFirebase /\ [][NextAsync]_vars

\* reminders of the notification manager across page loads
NextReminders ==
    \/ Tick
    \/ Reload
    \/ \E answer \in {"granted", "denied"} : RequestPermission(answer)
    \/ \E e \in ReminderEvents, m \in ReminderLeads : ScheduleReminder(e, m)
    \/ \E i \in 1..MaxTimers : FireTimer(i)

InitReminders ==
    /\ InitLocal
    /\ appLoaded

SpecReminders == InitReminders /\ [][NextReminders]_vars

\* the sign-in entry points of both modules with every outcome of the provider
NextSignIn ==
    \/ \E env \in InitEnvs : InitDatabase(env)
    \/ \E fb \in {"absent", "ok"} : InitializeFirebase(fb)
    \/ \E popup \in PopupOutcomes, redirect \in RedirectOutcomes, u \in FirebaseUsers :
           SignInWithGoogle(popup, redirect, u)
    \/ SignInWithGoogleDemo
    \/ \E resp \in Responses : DbSignInWithGoogle(resp)
    \/ CloseDemoLogin
    \/ \E ok \in BOOLEAN : SignOut(ok)

SpecSignIn == InitAny /\ [][NextSignIn]_vars

\* the startup handlers of app.js and auth.js in either order, across sessions
\* of the demo login and page reloads
NextStartup ==
    \/ LoadAppState
    \/ \E fb \in {"absent", "ok"} : InitializeFirebase(fb)
    \/ SignInWithGoogleDemo
    \/ CompleteDemoLogin(Jane, JaneEmail)
    \/ \E x \in LogInputs, rnd \in RandomSuffixes, saved \in BOOLEAN :
           LogHours(x, rnd, saved)
    \/ SignOut(TRUE)
    \/ Reload

SpecStartup == InitReminders /\ [][NextStartup]_vars

\* the backend is configured and its library is loaded: createClient succeeds
\* whenever initDatabase runs, and the per-user writes may be called at any time
NextConfigured ==
    \/ InitDatabase("ok")
    \/ \E su \in SessionUsers \cup {NULL} : SupabaseAuthEvent(su)
    \/ \E x \in ProfileInputs, resp \in Responses : DbUpdateProfile(x, resp)
    \/ \E x \in HoursInputs, resp \in Responses : DbAddHoursEntry(x, resp)
    \/ \E x \in EventInputs, resp \in Responses : DbAddEvent(x, resp)
    \/ \E x \in LetterInputs, resp \in Responses : DbSaveLetter(x, resp)

SpecConfigured == InitRemote /\ [][NextConfigured]_vars

\* the outreach records of AppState: tracked, updated, saved and loaded again
NextVolunteers ==
    \/ Tick
    \/ LoadAppState
    \/ \E c \in Contacts, rnd \in RandomSuffixes, saved \in BOOLEAN :
           TrackOutreach(c, rnd, saved)
    \/ \E id \in StoredIds \cup {UnknownId}, st \in Statuses, given \in BOOLEAN,
          n \in NotesGiven, saved \in BOOLEAN :
           UpdateStatus(id, st, given, n, saved)

SpecVolunteers == InitReminders /\ [][NextVolunteers]_vars

\* ------------------------------------------------------------ properties
\* two stored users are the same person when they carry the same email
SameUser(w, u) == u # NULL /\ u.email = w.email

OwnRows(rows) ==
    \A i \in 1..Len(rows) :
        rows[i].writtenBy # NULL => SameUser(rows[i].writtenBy, lsUser)

\* C1: in local mode a row written to hours/events/letters, or a profile saved,
\* while user A was signed in is never returned by getHoursLog / getEvents /
\* getLetters / getProfile while another user, or nobody, is signed in.
C1_OwnerOnly ==
    ~isDatabaseAvailable =>
        /\ last.op \in {"getHoursLog", "getEvents", "getLetters"} => OwnRows(last.val)
        /\ (last.op = "getProfile" /\ last.val # NULL) =>
               (last.val.writtenBy # NULL => SameUser(last.val.writtenBy, lsUser))

RemoteUnauthenticated == isDatabaseAvailable /\ session = NULL

GuardedOps ==
    {"getHoursLog", "getEvents", "getLetters", "getProfile", "updateProfile",
     "deleteHoursEntry", "deleteEvent"}

SendsMutation(sent) ==
    \E i \in 1..Len(sent) : sent[i].kind \in {"insert", "update", "delete"}

C3_OwnerStamped ==
    (isDatabaseAvailable /\ session # NULL) =>
        \A i \in 1..Len(last.sent) :
            LET q == last.sent[i]
            IN /\ q.kind = "insert" => q.payload.user_id = session.id
               /\ (q.kind \in {"update", "delete"} /\ q.table = "profiles") =>
                      (Has(q.where, "id") /\ q.where.id = session.id)
               /\ (q.kind \in {"update", "delete"} /\ q.table # "profiles") =>
                      (Has(q.where, "user_id") /\ q.where.user_id = session.id)
               /\ (q.kind = "update" /\ q.table = "profiles" /\ Has(q.payload, "id")) =>
                      q.payload.id = session.id

\* C4: in local mode deleteHoursEntry(id) of an inserted entry's id removes
\* exactly that entry and leaves every other entry unchanged and in order;
\* with an id that no row has the list is unchanged and no error is raised.
C4_DeletePrecise ==
    [][ (last'.op = "deleteHoursEntry" /\ last' # last /\ ~isDatabaseAvailable) =>
            /\ last'.out = "return"
            /\ IF \E i \in 1..Len(lsHours) : lsHours[i].id = last'.arg
               THEN \E i \in 1..Len(lsHours) :
                        /\ lsHours[i].id = last'.arg
                        /\ lsHours' = RemoveAt(lsHours, i)
               ELSE lsHours' = lsHours ]_vars

DistinctIds(rows) ==
    \A i, j \in 1..Len(rows) : i # j => rows[i].id # rows[j].id

\* C5: the rows stored in one local table have pairwise distinct ids, also
\* when two inserts happen without the clock advancing between them.
C5_DistinctIds ==
    /\ DistinctIds(lsHours)
    /\ DistinctIds(lsEvents)
    /\ DistinctIds(lsLetters)

\* C6: after updateProfile(x) (here: in local mode) getProfile() returns the
\* prior profile merged with x, with updated_at strictly greater than before
\* the call, also for two updates made back to back.
C6_ProfileMerged ==
    [][ (last'.op = "updateProfile" /\ last' # last /\ ~isDatabaseAvailable) =>
            LET prior == IF lsProfile = NULL THEN EmptyObj ELSE lsProfile
                x == last'.arg
                now == lsProfile'
            IN /\ \A k \in (DOMAIN x) \ {"updated_at"} : now[k] = x[k]
               /\ \A k \in (DOMAIN prior) \ ((DOMAIN x) \cup {"updated_at", "writtenBy"}) :
                      now[k] = prior[k]
               /\ Has(prior, "updated_at") =>
                      now.updated_at.iso > prior.updated_at.iso ]_vars

\* C7: initDatabase never throws; isAvailable() is true iff the most recent
\* call ran with configured credentials, found the library, and created the
\* client and registered the listener without error; nothing but initDatabase
\* changes it, and while it is false the hours log is served by the local store.
C7_Availability ==
    /\ [](last.op = "initDatabase" =>
             /\ last.out = "return"
             /\ isDatabaseAvailable <=> (configured /\ last.arg.env = "ok"))
    /\ [][ (isDatabaseAvailable' # isDatabaseAvailable) =>
               last'.op = "initDatabase" ]_vars
    /\ [][ (last'.op \in {"addHoursEntry", "getHoursLog"} /\ last' # last
            /\ ~isDatabaseAvailable) => last'.sent = <<>> ]_vars

C7_Witness ==
    /\ configured
    /\ last.op = "initDatabase"
    /\ last.arg.env = "nolib"
    /\ supabaseClient # NULL
    /\ ~isDatabaseAvailable

\* C8 as stated: in demo mode a demo sign-in with non-empty name n and email e
\* containing '@' makes getCurrentUser() return a user with displayName n,
\* email e and an id that starts with the demo prefix; after signOut() it is null.
C8_DemoSignIn ==
    /\ (last.op = "completeDemoLogin" /\ auth = NULL
        /\ Len(last.arg.name) > 0 /\ includes(last.arg.email, At)) =>
           /\ getCurrentUser # NULL
           /\ getCurrentUser.displayName = last.arg.name
           /\ getCurrentUser.email = last.arg.email
           /\ StartsWith(getCurrentUser.uid, DemoPrefix)
    /\ (last.op = "signOut" /\ auth = NULL) => getCurrentUser = NULL

\* C8 as amended: the name must be non-empty once surrounding blanks are
\* removed, and displayName and email equal n and e up to surrounding blanks
\* (the validating variant stores them trimmed).
C8_DemoSignInTrimmed ==
    /\ (last.op = "completeDemoLogin" /\ auth = NULL
        /\ Len(trim(last.arg.name)) > 0 /\ includes(last.arg.email, At)) =>
           /\ getCurrentUser # NULL
           /\ trim(getCurrentUser.displayName) = trim(last.arg.name)
           /\ trim(getCurrentUser.email) = trim(last.arg.email)
           /\ StartsWith(getCurrentUser.uid, DemoPrefix)
           /\ Len(getCurrentUser.uid) > Len(DemoPrefix)
    /\ (last.op = "signOut" /\ auth = NULL) => getCurrentUser = NULL

C8_Witness ==
    /\ last.op = "completeDemoLogin"
    /\ last.arg.name = <<Space, "Kim">>
    /\ lsUser # NULL
    /\ lsUser.displayName = <<"Kim">>

InvalidDemoInput(arg) ==
    Len(arg.name) = 0 \/ Len(arg.email) = 0 \/ ~includes(arg.email, At)

\* C9: a demo sign-in whose name is empty, whose email is empty, or whose email
\* has no '@' is aborted with no state change: the user key is not written, no
\* signal is emitted and the shared session object keeps its value.
C9_InvalidAborted ==
    [][ (last'.op = "completeDemoLogin" /\ last' # last
         /\ InvalidDemoInput(last'.arg)) =>
            /\ lsUser' = lsUser
            /\ appUser' = appUser
            /\ last'.signals = <<>> ]_vars

\* C10: every auth state change notification sets AppState.user to the user's
\* fields (null for no user) and dispatches exactly one event: userSignedIn
\* iff the user is non-null, userSignedOut iff it is null.
C10_OneSignal ==
    /\ Len(last.notified) = 0 => last.signals = <<>>
    /\ Len(last.notified) > 0 =>
           LET user == last.notified[1]
           IN IF user # NULL
              THEN /\ last.signals = <<"userSignedIn">>
                   /\ appLoaded =>
                          appUser = [uid |-> user.uid, name |-> user.displayName,
                                     email |-> user.email, photoURL |-> user.photoURL]
              ELSE /\ last.signals = <<"userSignedOut">>
                   /\ appLoaded => appUser = NULL

C10_Witness ==
    /\ last.op = "onAuthStateChange"
    /\ Len(last.notified) = 1
    /\ last.notified[1] # NULL
    /\ appLoaded
    /\ appUser # NULL
    /\ last.signals = <<"userSignedIn">>

\* the data layer runs against the hosted backend and its auth listener is registered
RemoteListening == isDatabaseAvailable /\ supabaseClient.listening

\* what the UI presents is the user derived from the hosted session
PresentsHostedSession ==
    /\ appLoaded => appUser = HandleAuthStateChangeUser(NormalizeSessionUser(session))
    /\ Len(last.notified) > 0 => last.notified[1] = NormalizeSessionUser(session)

\* C11: in remote mode, once the hosted-session listener has delivered a
\* session state, the user presented to the UI (last notification and
\* AppState.user) stays the one derived from the hosted session, whatever the
\* next step of a page whose auth bridge has started is, a demo login or a
\* sign-out of the auth bridge included.
C11_HostedSessionWins ==
    [][ (RemoteListening /\ "auth" \in ran
         /\ last.op = "onAuthStateChange" /\ Len(last.notified) = 1
         /\ RemoteListening') => PresentsHostedSession' ]_vars

InSeq(x, rows) == \E i \in 1..Len(rows) : rows[i] = x

\* C12: when availability goes from available to unavailable (a later
\* initDatabase fails) no remotely stored row is copied into the local store:
\* the switch, and every step taken in remote mode, leaves the local hours,
\* events, letters and profile keys unchanged, and a later read returns only
\* rows the local store holds.
C12_NoMigration ==
    /\ [][ (isDatabaseAvailable /\ ~isDatabaseAvailable') =>
               (lsHours' = lsHours /\ lsEvents' = lsEvents
                /\ lsLetters' = lsLetters /\ lsProfile' = lsProfile) ]_vars
    /\ [][ isDatabaseAvailable =>
               (lsHours' = lsHours /\ lsEvents' = lsEvents
                /\ lsLetters' = lsLetters /\ lsProfile' = lsProfile) ]_vars
    /\ [][ (last'.op = "getHoursLog" /\ last' # last /\ ~isDatabaseAvailable) =>
               /\ last'.out = "return"
               /\ last'.sent = <<>>
               /\ \A i \in 1..Len(last'.val) :
                      /\ InSeq(last'.val[i], lsHours)
                      /\ ~InSeq(last'.val[i], BackendHours)
               /\ last'.arg = EmptyObj => last'.val = lsHours ]_vars

\* the backend was available with a session, a later initDatabase failed, and
\* the hours log was then read from a local store that holds a row
C12_Witness ==
    /\ last.op = "getHoursLog"
    /\ ~isDatabaseAvailable
    /\ supabaseClient # NULL
    /\ supabaseClient.listening
    /\ session # NULL
    /\ Len(lsHours) > 0
    /\ last.val = lsHours

\* C13: every result of getOpportunities(filters), on whichever path it is
\* served, holds only active opportunities that satisfy the filters: the cause
\* area is among the row's cause areas when given, is_virtual equals
\* filters.isVirtual when given, and there are at most filters.limit rows when given.
C13_OpportunitiesFiltered ==
    last.op = "getOpportunities" =>
        LET filters == last.arg.filters
        IN /\ \A i \in 1..Len(last.val) :
                  /\ last.val[i].is_active
                  /\ Has(filters, "causeArea") =>
                         filters.causeArea \in last.val[i].cause_areas
                  /\ Has(filters, "isVirtual") =>
                         last.val[i].is_virtual = filters.isVirtual
           /\ Has(filters, "limit") => Len(last.val) <= filters.limit

\* C14: getOpportunities asks for no authenticated user and never fails: when
\* the remote query errors or the database is unavailable it returns the
\* bundled static snapshot, and when that read fails too it returns an empty
\* list; no error reaches the caller.
C14_OpportunitiesNeverFail ==
    last.op = "getOpportunities" =>
        /\ last.out = "return"
        /\ \A i \in 1..Len(last.sent) : last.sent[i] # GetUserReq
        /\ (~isDatabaseAvailable \/ last.arg.resp = "error") =>
               /\ last.arg.fetch = "ok" => last.val = StaticOpportunities
               /\ last.arg.fetch # "ok" => last.val = <<>>

\* remote mode without a session: the query errors and the snapshot cannot be read
C14_Witness ==
    /\ last.op = "getOpportunities"
    /\ isDatabaseAvailable
    /\ session = NULL
    /\ last.arg.resp = "error"
    /\ last.arg.fetch = "fails"
    /\ last.out = "return"
    /\ last.val = <<>>

\* a per-user operation to which the backend answers with an error
BackendErrorStep ==
    \/ DbGetProfile("error")
    \/ \E x \in ProfileInputs : DbUpdateProfile(x, "error")
    \/ \E f \in HoursFilters : DbGetHoursLog(f, "error")
    \/ \E x \in HoursInputs : DbAddHoursEntry(x, "error")
    \/ \E id \in DeleteIds : DbDeleteHoursEntry(id, "error")
    \/ \E f \in EventFilters : DbGetEvents(f, "error")
    \/ \E x \in EventInputs : DbAddEvent(x, "error")
    \/ \E id \in DeleteIds : DbDeleteEvent(id, "error")
    \/ \E f \in LetterFilters : DbGetLetters(f, "error")
    \/ \E x \in LetterInputs : DbSaveLetter(x, "error")

\* requests sent to the backend other than the lookup of the current user
TableRequests(sent) == SelectSeq(sent, LAMBDA q : q # GetUserReq)

\* C15: in remote mode, whenever the backend reports an error for a per-user
\* operation (getProfile, updateProfile, getHoursLog, addHoursEntry,
\* deleteHoursEntry, getEvents, addEvent, deleteEvent, getLetters, saveLetter,
\* signOut) the operation fails towards its caller with that error, after one
\* request and no retry; none returns normally.
C15_BackendErrorRaised ==
    [][ ( \/ (isDatabaseAvailable /\ session # NULL /\ BackendErrorStep)
          \/ (isDatabaseAvailable /\ DbSignOut(FALSE)) ) =>
            /\ last'.out = "throw"
            /\ last'.val = BackendError
            /\ Len(TableRequests(last'.sent)) = 1 ]_vars

\* C16: in local mode getTotalHours('all') equals the sum of the hours of all
\* hours entries inserted so far, whether they were inserted through
\* HoursTracker.logHours or through VolunteerDB.addHoursEntry (no entry is
\* deleted here): one entry with hours 4 makes it return 4.
C16_TotalHours ==
    (last.op = "getTotalHours" /\ last.arg.period = "all") =>
        last.val = SumHours(appHours) + SumHours(lsHours)

Blocks(ics) == { i \in 1..Len(ics) : ics[i] = <<"BEGIN:VEVENT">> }

\* the UID line of the k-th block of the file
UidLine(ics, k) == ics[3 + 7 * (k - 1) + 2]

\* s occurs in line as a run of consecutive chunks
Contains(line, s) ==
    \E i \in 1..(Len(line) - Len(s) + 1) : SubSeq(line, i, i + Len(s) - 1) = s

\* C17: exportToICS over a schedule of N events built by
\* ScheduleManager.addEvent emits exactly N BEGIN:VEVENT...END:VEVENT blocks in
\* insertion order, whose UIDs are pairwise distinct and each contain the id of
\* their event, also when the caller's event object carries an id of its own.
C17_IcsBlocks ==
    last.op = "exportToICS" =>
        LET ics == last.val
            N == Len(appSchedule)
        IN /\ Cardinality(Blocks(ics)) = N
           /\ Len(ics) = 4 + 7 * N
           /\ \A k \in 1..N :
                  /\ ics[3 + 7 * (k - 1) + 1] = <<"BEGIN:VEVENT">>
                  /\ ics[3 + 7 * k] = <<"END:VEVENT">>
                  /\ Contains(UidLine(ics, k), appSchedule[k].id)
                  /\ ics[3 + 7 * (k - 1) + 4] = <<"SUMMARY:">> \o appSchedule[k].title
           /\ \A j, k \in 1..N : j # k => UidLine(ics, j) # UidLine(ics, k)

\* C18: in local mode, with N addHoursEntry calls and no deletes, interleaved in
\* any order with demo sign-ins and sign-outs (window.signOut or
\* VolunteerDB.signOut), getHoursLog() without filters returns exactly N rows:
\* only an addHoursEntry changes the stored log, each one appends exactly one
\* row, and the unfiltered read returns the whole log.
C18_AllRowsListed ==
    /\ [][ lsHours' # lsHours =>
               /\ last'.op = "addHoursEntry"
               /\ Len(lsHours') = Len(lsHours) + 1
               /\ SubSeq(lsHours', 1, Len(lsHours)) = lsHours ]_vars
    /\ [][ (last'.op = "addHoursEntry" /\ last' # last) =>
               Len(lsHours') = Len(lsHours) + 1 ]_vars
    /\ [](( last.op = "getHoursLog" /\ last.arg = EmptyObj /\ ~isDatabaseAvailable) =>
              (last.out = "return" /\ last.val = lsHours))

\* two entries were added by a signed-in demo user, who then signed out, and
\* the unfiltered read still lists both
C18_Witness ==
    /\ last.op = "getHoursLog"
    /\ lsUser = NULL
    /\ Len(last.val) = 2
    /\ last.val[1].writtenBy # NULL
    /\ last.val[2].writtenBy # NULL

\* the row a local insert appended to a table keeps the caller's id and
\* created_at when the entry carries them, and has both in any case
KeepsCallerFields(before, after, entry) ==
    after # before =>
        /\ Len(after) = Len(before) + 1
        /\ SubSeq(after, 1, Len(before)) = before
        /\ LET row == after[Len(after)]
           IN /\ Has(row, "id") /\ Has(row, "created_at")
              /\ \A k \in {"id", "created_at"} : Has(entry, k) => row[k] = entry[k]
              /\ \A k \in DOMAIN entry : row[k] = entry[k]

\* C19: a local-mode insert (addHoursEntry, addEvent, saveLetter) assigns a
\* fresh id and a creation timestamp only if the row lacks them: a row passed in
\* with its own id or created_at is stored with those values unchanged, and the
\* row is appended at the end of the stored sequence.
C19_InsertKeepsCallerId ==
    [][ /\ last'.op = "addHoursEntry" => KeepsCallerFields(lsHours, lsHours', last'.arg)
        /\ last'.op = "addEvent" => KeepsCallerFields(lsEvents, lsEvents', last'.arg)
        /\ last'.op = "saveLetter" => KeepsCallerFields(lsLetters, lsLetters', last'.arg)
      ]_vars

\* a local insert into a table is all or nothing
AtomicInsert(op, before, after) ==
    (last'.op = op /\ (last' # last \/ after # before)) =>
        /\ last'.out = "throw" => after = before
        /\ last'.out = "return" =>
               /\ Len(after) = Len(before) + 1
               /\ SubSeq(after, 1, Len(before)) = before
               /\ Unstamp(after[Len(after)]) = last'.val

\* a local delete from a table is all or nothing
AtomicDelete(op, before, after) ==
    (last'.op = op /\ (last' # last \/ after # before)) =>
        /\ last'.out = "throw" => after = before
        /\ last'.out = "return" => after = WithoutId(before, last'.arg)

\* C20: a local-mode insert or delete is atomic for the caller: when persisting
\* the updated sequence fails the stored sequence is exactly the one before the
\* call, when it succeeds the stored sequence is the full updated one, and a
\* read returns one of the two.
C20_AtomicWrite ==
    /\ [][ /\ AtomicInsert("addHoursEntry", lsHours, lsHours')
           /\ AtomicInsert("addEvent", lsEvents, lsEvents')
           /\ AtomicInsert("saveLetter", lsLetters, lsLetters')
           /\ AtomicDelete("deleteHoursEntry", lsHours, lsHours')
           /\ AtomicDelete("deleteEvent", lsEvents, lsEvents') ]_vars
    /\ []( /\ last.op = "getHoursLog" => last.val = lsHours
           /\ last.op = "getEvents" => last.val = lsEvents
           /\ last.op = "getLetters" => last.val = lsLetters )

\* an insert failed to persist while the log held a row, which is still there
C20_Witness ==
    /\ last.op = "addHoursEntry"
    /\ last.out = "throw"
    /\ last.val = StorageError
    /\ Len(lsHours) = 1

\* C21: local-mode operations do not suspend between reading and writing the
\* stored sequence: a local insert started while others were started without
\* being awaited appends its row in the step that starts it, no write ever
\* drops a stored row, and after k such inserts the table holds all k rows.
C21_NoLostUpdate ==
    /\ [][ (~isDatabaseAvailable /\ last'.op = "addHoursEntry"
            /\ (last' # last \/ lsHours' # lsHours \/ pending' # pending)
            /\ Len(pending') >= Len(pending)) =>
               /\ last'.out = "return"
               /\ pending' = pending
               /\ lsHours' = Append(lsHours, lsHours'[Len(lsHours')]) ]_vars
    /\ [][ lsHours' # lsHours =>
               /\ Len(lsHours') = Len(lsHours) + 1
               /\ SubSeq(lsHours', 1, Len(lsHours)) = lsHours ]_vars

\* two local inserts started in the same millisecond are both stored
C21_Witness ==
    /\ ~isDatabaseAvailable
    /\ last.op = "addHoursEntry"
    /\ last.out = "return"
    /\ Len(lsHours) = 2
    /\ lsHours[1].created_at = lsHours[2].created_at
    /\ lsHours[1].date # lsHours[2].date

\* C22: reminder timers are one-shot and keyed by event id: at most one
\* reminder notification is ever shown for an event id however often
\* scheduleReminder is called for it, a call whose reminder time is not in the
\* future sets no timer, and a page reload leaves no timer behind.
C22_OneReminderPerEvent ==
    /\ [](\A i, j \in 1..Len(shown) : shown[i] = shown[j] => i = j)
    /\ [][ (last'.op = "scheduleReminder" /\ last' # last
            /\ ReminderTime(last'.arg.event, last'.arg.minutesBefore) <= clock)
           => timers' = timers ]_vars
    /\ [][ (last'.op = "reload" /\ last' # last) => timers' = <<>> ]_vars

\* the call that just ended was a provider sign-in that failed
FailedSignIn ==
    \/ last.op = "signInWithGoogle" /\ Has(last.arg, "popup") /\ last.arg.popup # "ok"
    \/ last.op = "dbSignInWithGoogle" /\ isDatabaseAvailable /\ last.arg.resp = "error"

\* C23: a failed provider sign-in (signInWithGoogle, VolunteerDB.signInWithGoogle)
\* always ends with a message shown to the user and has sent at most one
\* sign-in request to the hosted auth service.
C23_FailedSignInShown ==
    FailedSignIn => (last.alert # "" /\ Len(last.sent) <= 1)

\* C24: in remote mode, when the notification just delivered was signed-in,
\* the data layer is authenticated too: dbGetCurrentUser() returns a user, so
\* per-user mutations do not fail with 'Not authenticated' (also after a demo
\* login or a demo user found in localStorage at startup).
C24_SignedInMeansAuthenticated ==
    (isDatabaseAvailable /\ Len(last.notified) = 1 /\ last.notified[1] # NULL)
        => dbGetCurrentUser # NULL

\* C25: in remote mode, once the public signOut() has completed and the UI was
\* told signed-out, the hosted session is ended as well: dbGetCurrentUser()
\* returns null and getCurrentUser() agrees with it.
C25_SignOutEndsSession ==
    (isDatabaseAvailable /\ last.op = "signOut"
     /\ Len(last.notified) = 1 /\ last.notified[1] = NULL)
        => (dbGetCurrentUser = NULL /\ getCurrentUser = dbGetCurrentUser)

\* C26: once loadAppState and the auth initialisation have both run, in either
\* order, AppState.user is null exactly when the auth notification was
\* signed-out: a loadAppState that runs after the signed-out notification of
\* the auth initialisation leaves AppState.user null, so a user saved in
\* volunteerConnectState by an earlier session is never restored.
C26_UserFollowsNotification ==
    /\ []( ("app" \in ran /\ "auth" \in ran /\ Len(last.notified) = 1)
             => (appUser = NULL <=> last.notified[1] = NULL) )
    /\ [][ (last'.op = "loadAppState" /\ "app" \notin ran /\ "app" \in ran'
            /\ "auth" \in ran /\ last.op = "initializeFirebase"
            /\ Len(last.notified) = 1 /\ last.notified[1] = NULL)
           => appUser' = NULL ]_vars

\* C27: when the backend is configured and its library is loaded, no per-user
\* write of VolunteerDB (updateProfile, addHoursEntry, addEvent, saveLetter) is
\* stored in the local fallback store, calls made before the DOMContentLoaded
\* handler has run initDatabase included.
C27_NoLocalWriteWhenConfigured ==
    [][ (configured /\ last'.op \in {"updateProfile", "addHoursEntry", "addEvent",
                                     "saveLetter"})
        => (lsProfile' = lsProfile /\ lsHours' = lsHours
            /\ lsEvents' = lsEvents /\ lsLetters' = lsLetters) ]_vars

\* the persisted keys of the local store
PersistedKeys ==
    [user |-> lsUser, profile |-> lsProfile, hours |-> lsHours, events |-> lsEvents,
     letters |-> lsLetters]

\* C28: in local mode the two sign-out entry points are equivalent: from the
\* same state window.signOut() and VolunteerDB.signOut() leave the same
\* persisted keys (user, profile, hours, events, letters) and send the same
\* notification.
C28_SignOutsEquivalent ==
    [][ (~isDatabaseAvailable /\ last'.op \in {"signOut", "dbSignOut"}
         /\ (last' # last \/ PersistedKeys' # PersistedKeys))
        => (PersistedKeys' = KeysAfterDbSignOut
            /\ Len(last'.notified) = 1 /\ last'.notified[1] = NULL) ]_vars

\* the sum of one field over the groups of a report
RECURSIVE SumGroups(_, _, _)
SumGroups(groups, orgs, field) ==
    IF orgs = {} THEN 0
    ELSE LET org == CHOOSE o \in orgs : TRUE
         IN groups[org][field] + SumGroups(groups, orgs \ {org}, field)

\* C29: the report of generateReport(period) is consistent with itself for
\* every period: totalHours is the sum of the hours of the organisation groups,
\* entriesCount is the sum of their counts, and averagePerEntry is
\* totalHours / entriesCount.
C29_ReportConsistent ==
    last.op = "generateReport" =>
        LET r == last.val
            orgs == DOMAIN r.byOrganization
        IN /\ r.totalHours = SumGroups(r.byOrganization, orgs, "hours")
           /\ r.entriesCount = SumGroups(r.byOrganization, orgs, "count")
           /\ r.entriesCount > 0 =>
                  (r.averagePerEntry.num = r.totalHours
                   /\ r.averagePerEntry.den = r.entriesCount)

\* the record after the call differs from the one before in status and
\* lastUpdated at most
OnlyStatusChanged(old, new) ==
    /\ DOMAIN new \ {"lastUpdated"} = DOMAIN old \ {"lastUpdated"}
    /\ \A k \in DOMAIN old \ {"status", "lastUpdated"} : new[k] = old[k]

====
